---------------------------- MODULE Spec2Model ----------------------------
(***************************************************************************)
(* A model of cfd (Cloudflare detector): the CIDR matcher of cf_ips.rs,    *)
(* the domain validation of domain.rs, and the concurrent verification of  *)
(* checker.rs.                                                             *)
(*                                                                         *)
(* A Rust String is modelled as a sequence of one-character strings, so    *)
(* that split, trim, len and the binary rendering are computed as the code *)
(* computes them.                                                          *)
(***************************************************************************)
EXTENDS Integers, Sequences, FiniteSets, TLC

VARIABLES
    \* ---- CFIPs::check_ip_in_cidr (cf_ips.rs) ----
    cidr_ip,        \* the `ip` argument, a string
    cidr_range,     \* the `cidr_range` argument, a string
    cidr_res,       \* "none" before the call, then "true" | "false" | "panic"
    \* ---- CFIPs::load_ips / CFIPs::check_ip_v4 (cf_ips.rs) ----
    fetched,        \* the text of the fetched list of ranges, a string
    cf_ipsv4,       \* CFIPs.ipsv4: the lines of the fetched text
    v4_ip,          \* the `ip` argument of check_ip_v4, a string
    v4_res,         \* "none" before the call, then "true" | "false" | "panic"
    ipc,            \* "fetch" | "loaded" | "done"
    \* ---- Checker::build / Domain::build (checker.rs, domain.rs) ----
    target,         \* the `target` argument of Checker::build, a string
    bpc,            \* "lines" | "load" | "Ok" | "Err" | "panic"
    bidx,           \* index of the next line of the for_each loop
    built,          \* the `domains` vector under construction
    last_build,     \* the last Domain::build call: [input, res, name]
    \* ---- Checker::check / Domain::verify_domain / cf_detected_domains ----
    domain_name,    \* record -> Domain.name
    check_result,   \* record -> Domain.check_result (u8 mask)
    is_unreachable, \* record -> Domain.is_unreachable
    lock,           \* record -> holder of the record's tokio Mutex
    waiters,        \* record -> FIFO queue of the Mutex's waiters
    tpc,            \* task -> position of the spawned task
    result,         \* task -> verify_domain's local `result`
    obs,            \* task -> what the task's network operations returned
    writer,         \* record -> the task that wrote check_result last
    mpc,            \* position of the caller of the Checker
    run,            \* number of Checker::check calls started
    idx,            \* loop index of the caller (spawn, join, detected loop)
    check_ret,      \* what the last Checker::check returned
    detected        \* the vector cf_detected_domains builds and returns

cidrVars == <<cidr_ip, cidr_range, cidr_res>>
ipsVars == <<fetched, cf_ipsv4, v4_ip, v4_res, ipc>>
buildVars == <<target, bpc, bidx, built, last_build>>
checkVars == <<domain_name, check_result, is_unreachable, lock, waiters, tpc, result, obs,
               writer, mpc, run, idx, check_ret, detected>>
vars == <<cidrVars, ipsVars, buildVars, checkVars>>

-----------------------------------------------------------------------------
(* Strings *)

\* The code point of a character (`c as u32`).
CharCode(c) ==
    CASE c = " " -> 32 [] c = "!" -> 33 [] c = "+" -> 43 [] c = "-" -> 45
      [] c = "." -> 46 [] c = "/" -> 47
      [] c = "0" -> 48 [] c = "1" -> 49 [] c = "2" -> 50 [] c = "3" -> 51
      [] c = "4" -> 52 [] c = "5" -> 53 [] c = "6" -> 54 [] c = "7" -> 55
      [] c = "8" -> 56 [] c = "9" -> 57 [] c = ":" -> 58
      [] c = "a" -> 97 [] c = "b" -> 98 [] c = "c" -> 99 [] c = "e" -> 101
      [] c = "f" -> 102 [] c = "h" -> 104 [] c = "l" -> 108 [] c = "m" -> 109
      [] c = "o" -> 111 [] c = "p" -> 112 [] c = "s" -> 115 [] c = "t" -> 116
      [] c = "x" -> 120
      [] c = "\n" -> 10
      [] c = "é" -> 233

\* The positions of a string at which pattern `pat` starts.
MatchesAt(s, pat, i) ==
    /\ i + Len(pat) - 1 <= Len(s)
    /\ SubSeq(s, i, i + Len(pat) - 1) = pat

\* str::split(pat): the pieces between the matches of `pat`, in order; always at
\* least one piece. (The patterns of the program, "\n", ".", "/" and "://", cannot
\* overlap themselves, so every match is a separator.)
Split(s, pat) ==
    LET starts == {i \in 1..Len(s) : MatchesAt(s, pat, i)}
        n == Cardinality(starts)
        Kth(k) == CHOOSE i \in starts : Cardinality({j \in starts : j < i}) = k - 1
    IN [k \in 1..(n + 1) |->
          SubSeq(s, IF k = 1 THEN 1 ELSE Kth(k - 1) + Len(pat),
                    IF k = n + 1 THEN Len(s) ELSE Kth(k) - 1)]

\* helpers::split_to_string_vec
split_to_string_vec(string, delim) == Split(string, delim)

RECURSIVE Concat(_)
Concat(ss) == IF ss = <<>> THEN <<>> ELSE Head(ss) \o Concat(Tail(ss))

\* format!("{:08b}", n) for n < 256: eight binary digits, most significant first.
Byte8(n) == [i \in 1..8 |-> (n \div (2 ^ (8 - i))) % 2]

\* helpers::string_to_binary: eight bits of `c as u8` per character.
string_to_binary(s) == Concat([i \in 1..Len(s) |-> Byte8(CharCode(s[i]) % 256)])

IsDigit(c) == c \in {"0", "1", "2", "3", "4", "5", "6", "7", "8", "9"}

RECURSIVE DecValue(_)
DecValue(s) ==
    IF s = <<>> THEN 0
    ELSE 10 * DecValue(SubSeq(s, 1, Len(s) - 1)) + (CharCode(s[Len(s)]) - 48)

\* str::parse::<u8>().unwrap_or(0): an optional '+', then one or more digits, and a
\* value a u8 holds; anything else is an error, which unwrap_or turns into 0.
ParseU8OrZero(s) ==
    LET body == IF s # <<>> /\ Head(s) = "+" THEN Tail(s) ELSE s
    IN IF body = <<>> \/ \E i \in 1..Len(body) : ~IsDigit(body[i]) THEN 0
       ELSE IF DecValue(body) > 255 THEN 0
       ELSE DecValue(body)

-----------------------------------------------------------------------------
(* cf_ips.rs *)

\* CFIPs::check_ip_in_cidr. "panic" is an index or a slice out of range.
check_ip_in_cidr(ip, range) ==
    LET ip_parts == Split(ip, <<".">>)
        cidr_parts == Split(range, <<"/">>)
    IN IF Len(cidr_parts) < 2 THEN "panic"
       ELSE
         LET mask_size == ParseU8OrZero(cidr_parts[2])
             net_parts == Split(cidr_parts[1], <<".">>)
         IN IF Len(ip_parts) # 4 \/ Len(net_parts) # 4 THEN "false"
            ELSE
              LET ip_bin == Concat([i \in 1..4 |-> string_to_binary(ip_parts[i])])
                  cidr_bin == Concat([i \in 1..4 |-> string_to_binary(net_parts[i])])
              IN IF mask_size > Len(ip_bin) \/ mask_size > Len(cidr_bin) THEN "panic"
                 ELSE IF SubSeq(ip_bin, 1, mask_size) = SubSeq(cidr_bin, 1, mask_size)
                      THEN "true"
                      ELSE "false"

\* Decimal rendering of a number (Ipv4Addr's Display prints each octet this way).
RECURSIVE ToDec(_)
ToDec(n) ==
    LET d == <<"0", "1", "2", "3", "4", "5", "6", "7", "8", "9">>[(n % 10) + 1]
    IN IF n < 10 THEN <<d>> ELSE Append(ToDec(n \div 10), d)

\* ip.unwrap().ip().to_string(): dotted decimal.
Ipv4ToString(o) == ToDec(o[1]) \o <<".">> \o ToDec(o[2]) \o <<".">> \o ToDec(o[3])
                   \o <<".">> \o ToDec(o[4])

\* A line of the published list: a.b.c.d/p
CidrToString(o, p) == Ipv4ToString(o) \o <<"/">> \o ToDec(p)

\* The addresses and networks the matcher is run on.
Addresses ==
    { <<131, 0, 72, 1>>, <<131, 0, 76, 1>>, <<131, 0, 75, 255>>, <<10, 0, 0, 1>>,
      <<8, 8, 8, 8>>, <<1, 2, 3, 4>>, <<12, 3, 4, 5>>, <<104, 16, 0, 9>>,
      <<255, 255, 255, 255>> }

Networks ==
    { <<131, 0, 72, 0>>, <<8, 0, 0, 0>>, <<1, 2, 3, 0>>, <<104, 16, 0, 0>>,
      <<0, 0, 0, 0>>, <<255, 255, 255, 255>> }

\* The prefix lengths of a well-formed IPv4 range.
PrefixLengths == 0..32

CidrInit ==
    /\ \E a \in Addresses : cidr_ip = Ipv4ToString(a)
    /\ \E n \in Networks, p \in PrefixLengths : cidr_range = CidrToString(n, p)
    /\ cidr_res = "none"

\* One call of CFIPs::check_ip_in_cidr(ip, cidr_range).
CheckIpInCidr ==
    /\ cidr_res = "none"
    /\ cidr_res' = check_ip_in_cidr(cidr_ip, cidr_range)
    /\ UNCHANGED <<cidr_ip, cidr_range>>

CidrIdle ==
    /\ cidr_ip = <<>>
    /\ cidr_range = <<>>
    /\ cidr_res = "none"

-----------------------------------------------------------------------------
(* domain.rs: Domain::build, Domain::is_valid, Domain::clear_name_from_proto *)

EMPTY == 0
CF_IP == 1
CF_RAY_HEADER == 2
CF_CACHE_STATUS_HEADER == 4
CF_SERVER == 8
CF_SSL == 16

MaxNameLen == 253
MaxLabelLen == 63

\* char::is_whitespace, on the characters of the model.
IsWhitespace(c) == c \in {" ", "\n"}

\* char::is_alphanumeric: Unicode letters and digits, not only ASCII ones.
IsAlphanumeric(c) ==
    \/ IsDigit(c)
    \/ c \in {"a", "b", "c", "e", "f", "h", "l", "m", "o", "p", "s", "t", "x", "é"}

\* The bytes of a character's UTF-8 encoding.
Utf8Width(c) == IF CharCode(c) < 128 THEN 1 ELSE IF CharCode(c) < 2048 THEN 2 ELSE 3

\* str::len: the length in bytes.
StrLen(s) ==
    Len(s) + Cardinality({i \in 1..Len(s) : Utf8Width(s[i]) >= 2})
           + Cardinality({i \in 1..Len(s) : Utf8Width(s[i]) >= 3})

\* str::trim: leading and trailing whitespace removed.
Trim(s) ==
    LET keep == {i \in 1..Len(s) : ~IsWhitespace(s[i])}
    IN IF keep = {} THEN <<>>
       ELSE SubSeq(s, CHOOSE i \in keep : \A j \in keep : i <= j,
                      CHOOSE i \in keep : \A j \in keep : i >= j)

Http == <<"h", "t", "t", "p">>
Https == <<"h", "t", "t", "p", "s">>
SchemeSep == <<":", "/", "/">>

\* Domain::clear_name_from_proto. [ok |-> FALSE] is the panic "Invalid proto".
clear_name_from_proto(domain) ==
    LET d == Trim(domain)
        domain_chunks == Split(d, SchemeSep)
    IN IF Len(domain_chunks) > 1
       THEN IF domain_chunks[1] = Http \/ domain_chunks[1] = Https
            THEN [ok |-> TRUE, s |-> domain_chunks[2]]
            ELSE [ok |-> FALSE, s |-> <<>>]
       ELSE [ok |-> TRUE, s |-> d]

\* One pass of the label loop of Domain::is_valid.
LabelOk(label) ==
    /\ StrLen(label) <= MaxLabelLen
    /\ \A i \in 1..Len(label) : IsAlphanumeric(label[i]) \/ label[i] = "-"
    /\ ~(label # <<>> /\ (Head(label) = "-" \/ label[Len(label)] = "-"))

\* Domain::is_valid: "true" | "false", or "panic" out of clear_name_from_proto.
is_valid(domain) ==
    LET c == clear_name_from_proto(domain)
    IN IF ~c.ok THEN "panic"
       ELSE IF c.s = <<>> THEN "false"
       ELSE IF StrLen(c.s) > MaxNameLen THEN "false"
       ELSE LET labels == Split(c.s, <<".">>)
            IN IF Len(labels) < 2 THEN "false"
               ELSE IF \A i \in 1..Len(labels) : LabelOk(labels[i]) THEN "true"
               ELSE "false"

NoDomain == [name |-> <<>>, check_result |-> EMPTY, is_unreachable |-> FALSE]

\* Domain::build: res is "Ok" (with the record), "Err", or "panic".
DomainBuild(name) ==
    LET v == is_valid(name)
    IN IF v = "true"
       THEN [res |-> "Ok",
             domain |-> [name |-> clear_name_from_proto(name).s,
                         check_result |-> EMPTY,
                         is_unreachable |-> FALSE]]
       ELSE IF v = "false" THEN [res |-> "Err", domain |-> NoDomain]
       ELSE [res |-> "panic", domain |-> NoDomain]

\* Domain::get_status
get_status(d) ==
    IF d.is_unreachable THEN "Unreachable"
    ELSE IF d.check_result # 0 THEN "CF detected"
    ELSE "CF not detected"

-----------------------------------------------------------------------------
(* checker.rs: Checker::build *)

Rep(c, n) == [i \in 1..n |-> c]

ExampleCom == <<"e", "x", "a", "m", "p", "l", "e", ".", "c", "o", "m">>

\* Names without a scheme.
Bodies ==
    { ExampleCom,
      <<"-">> \o ExampleCom \o <<"!">>,
      <<"a", ".", "b">>,
      <<"a">>,
      <<>>,
      <<"a", "-", ".", "b">>,
      <<"a", "-", "b", ".", "c">>,
      <<"a", ".", ".", "b">>,
      <<"é", ".", "b">>,
      Rep("a", MaxLabelLen) \o <<".", "b">>,
      Rep("a", MaxLabelLen + 1) \o <<".", "b">>,
      Rep("é", 40) \o <<".", "b">>,
      Rep("a", 63) \o <<".">> \o Rep("b", 63) \o <<".">> \o Rep("c", 63) \o <<".">>
          \o Rep("e", 61),
      Rep("a", 63) \o <<".">> \o Rep("b", 63) \o <<".">> \o Rep("c", 63) \o <<".">>
          \o Rep("e", 62) }

Ftp == <<"f", "t", "p">>

\* The lines of a target: a name, bare or behind a scheme or padded with spaces.
Lines ==
    Bodies
    \cup {Http \o SchemeSep \o ExampleCom, Https \o SchemeSep \o ExampleCom,
          Ftp \o SchemeSep \o ExampleCom,
          <<" ">> \o ExampleCom \o <<" ">>,
          <<" ">> \o Https \o SchemeSep \o <<"a", ".", "b">>,
          Http \o SchemeSep \o <<"a", ".", "b">> \o SchemeSep \o <<"c">>,
          Https \o SchemeSep,
          Http \o SchemeSep \o <<"-", "a", ".", "b">>}

MaxLines == 2

RECURSIVE JoinLines(_)
JoinLines(ls) ==
    IF Len(ls) = 1 THEN ls[1] ELSE ls[1] \o <<"\n">> \o JoinLines(Tail(ls))

Targets == {JoinLines(ls) : ls \in UNION {[1..n -> Lines] : n \in 1..MaxLines}}

NoBuild == [input |-> <<>>, res |-> "none", name |-> <<>>]

BuildInit ==
    /\ target \in Targets
    /\ bpc = "lines"
    /\ bidx = 1
    /\ built = <<>>
    /\ last_build = NoBuild

\* One iteration of the for_each of Checker::build: Domain::build on the line, the
\* record pushed when it is Ok. A panic unwinds out of Checker::build.
BuildLine ==
    /\ bpc = "lines"
    /\ LET lines == Split(target, <<"\n">>)
           b == DomainBuild(lines[bidx])
       IN /\ last_build' = [input |-> lines[bidx], res |-> b.res, name |-> b.domain.name]
          /\ built' = IF b.res = "Ok" THEN Append(built, b.domain) ELSE built
          /\ bpc' = IF b.res = "panic" THEN "panic"
                    ELSE IF bidx = Len(lines) THEN "load" ELSE "lines"
          /\ bidx' = bidx + 1
    /\ UNCHANGED target

\* CFIPs::load().await? succeeds: Checker::build returns Ok.
BuildLoadOk ==
    /\ bpc = "load"
    /\ bpc' = "Ok"
    /\ UNCHANGED <<target, bidx, built, last_build>>

\* CFIPs::load().await? fails (a fetch error): Checker::build returns Err.
BuildLoadErr ==
    /\ bpc = "load"
    /\ bpc' = "Err"
    /\ UNCHANGED <<target, bidx, built, last_build>>

BuildIdle ==
    /\ target = <<>>
    /\ bpc = "idle"
    /\ bidx = 1
    /\ built = <<>>
    /\ last_build = NoBuild

-----------------------------------------------------------------------------
(* cf_ips.rs: CFIPs::check_ip_v4 *)

\* Iterator::any over ipsv4: the first range that matches ends the search, and a
\* panic of check_ip_in_cidr on an earlier range unwinds out of it.
RECURSIVE CheckIpV4From(_, _, _)
CheckIpV4From(ipsv4, ip, i) ==
    IF i > Len(ipsv4) THEN "false"
    ELSE LET r == check_ip_in_cidr(ip, ipsv4[i])
         IN IF r = "false" THEN CheckIpV4From(ipsv4, ip, i + 1) ELSE r

check_ip_v4(ipsv4, ip) == CheckIpV4From(ipsv4, ip, 1)

\* The lines a fetched list is made of: lines of the published list, and lines that
\* are not a range (empty, without '/', with empty octets, with a prefix length that
\* is greater than 32, or that is not a u8).
RangeLines ==
    { CidrToString(<<131, 0, 72, 0>>, 22),
      CidrToString(<<104, 16, 0, 0>>, 13),
      <<>>,
      Ipv4ToString(<<1, 2, 3, 4>>),
      <<"1", ".", ".", "3", ".", "4", "/", "8">>,
      <<".", ".", ".", "/", "8">>,
      CidrToString(<<10, 0, 0, 0>>, 33),
      CidrToString(<<10, 0, 0, 0>>, 300) }

MaxRanges == 2

\* The texts a fetch returns: up to MaxRanges lines joined by newlines.
FetchedTexts == {JoinLines(ls) : ls \in UNION {[1..n -> RangeLines] : n \in 1..MaxRanges}}

\* The address strings check_ip_v4 is called with; the last one is not an IPv4 address.
AddressStrings ==
    {Ipv4ToString(a) : a \in {<<131, 0, 72, 1>>, <<10, 0, 0, 1>>, <<1, 2, 3, 4>>,
                              <<255, 255, 255, 255>>}}
    \cup {<<":", ":", "1">>}

IpsInit ==
    /\ fetched \in FetchedTexts
    /\ v4_ip \in AddressStrings
    /\ cf_ipsv4 = <<>>
    /\ v4_res = "none"
    /\ ipc = "fetch"

\* CFIPs::load_ips after the fetch returned its text: the text split on newlines.
LoadIps ==
    /\ ipc = "fetch"
    /\ cf_ipsv4' = split_to_string_vec(fetched, <<"\n">>)
    /\ ipc' = "loaded"
    /\ UNCHANGED <<fetched, v4_ip, v4_res>>

\* One call of CFIPs::check_ip_v4(ip) on the loaded list.
CheckIpV4 ==
    /\ ipc = "loaded"
    /\ v4_res' = check_ip_v4(cf_ipsv4, v4_ip)
    /\ ipc' = "done"
    /\ UNCHANGED <<fetched, cf_ipsv4, v4_ip>>

IpsIdle ==
    /\ fetched = <<>>
    /\ cf_ipsv4 = <<>>
    /\ v4_ip = <<>>
    /\ v4_res = "none"
    /\ ipc = "idle"

\* The ranges CFIPs::load fetched (two lines of the published list).
CfIpsV4 == <<CidrToString(<<131, 0, 72, 0>>, 22), CidrToString(<<104, 16, 0, 0>>, 13)>>

-----------------------------------------------------------------------------
(* domain.rs: Domain::verify_domain, Domain::get_certificate_info *)

\* str::contains
Contains(s, pat) == \E i \in 1..(Len(s) + 1) : MatchesAt(s, pat, i)

\* char::to_lowercase, on the characters of the model.
ToLowerChar(c) ==
    CASE c = "C" -> "c" [] c = "L" -> "l" [] c = "E" -> "e" [] c = "I" -> "i"
      [] OTHER -> c

to_lowercase(s) == [i \in 1..Len(s) |-> ToLowerChar(s[i])]

Cloudflare == <<"c", "l", "o", "u", "d", "f", "l", "a", "r", "e">>

\* u8 masks: whether a one-bit mask `b` is set in `m`, and `m | b`.
HasBit(m, b) == (m \div b) % 2 = 1
BitOr(m, b) == IF HasBit(m, b) THEN m ELSE m + b

\* A header of the response: absent, or present with a value that is visible ASCII
\* (HeaderValue::to_str is Ok) or not.
NoHeader == [present |-> FALSE, text |-> FALSE, value |-> <<>>]
TextHeader(v) == [present |-> TRUE, text |-> TRUE, value |-> v]
OpaqueHeader == [present |-> TRUE, text |-> FALSE, value |-> <<>>]

\* What a successful reqwest::get returns: the peer address (<<>> is None), the two
\* cf headers, the Server header.
Responses ==
    { [addr |-> <<104, 16, 0, 9>>, cf_ray |-> TRUE, cf_cache |-> TRUE,
       server |-> TextHeader(Cloudflare)],
      [addr |-> <<8, 8, 8, 8>>, cf_ray |-> FALSE, cf_cache |-> FALSE,
       server |-> TextHeader(<<"n", "g", "i", "n", "x">>)],
      [addr |-> <<>>, cf_ray |-> TRUE, cf_cache |-> FALSE,
       server |-> TextHeader(<<"C", "l", "o", "u", "d", "f", "l", "a", "r", "e">>)],
      [addr |-> <<8, 8, 8, 8>>, cf_ray |-> FALSE, cf_cache |-> FALSE,
       server |-> NoHeader],
      [addr |-> <<8, 8, 8, 8>>, cf_ray |-> FALSE, cf_cache |-> FALSE,
       server |-> OpaqueHeader] }

NoResponse == [addr |-> <<>>, cf_ray |-> FALSE, cf_cache |-> FALSE, server |-> NoHeader]

\* The body of `if let Ok(resp)` up to the Server check (domain.rs 144-163): the
\* bits it sets, or the panic of an unwrap.
VerifyResponse(resp) ==
    LET in_cf == IF resp.addr = <<>> THEN "false"
                 ELSE check_ip_v4(CfIpsV4, Ipv4ToString(resp.addr))
        r1 == IF in_cf = "true" THEN BitOr(EMPTY, CF_IP) ELSE EMPTY
        r2 == IF resp.cf_ray THEN BitOr(r1, CF_RAY_HEADER) ELSE r1
        r3 == IF resp.cf_cache THEN BitOr(r2, CF_CACHE_STATUS_HEADER) ELSE r2
    IN IF in_cf = "panic" \/ ~resp.server.present \/ ~resp.server.text
       THEN [panic |-> TRUE, result |-> EMPTY]
       ELSE [panic |-> FALSE,
             result |-> IF Contains(resp.server.value, Cloudflare)
                        THEN BitOr(r3, CF_SERVER) ELSE r3]

\* VerifyResponse, tabulated over the responses of the model.
ResponseVerdict == [resp \in Responses |-> VerifyResponse(resp)]

\* A peer certificate: x509_parser parses it or not, and its issuer.
Cert(issuer) == [parsable |-> TRUE, issuer |-> issuer]
BadCert == [parsable |-> FALSE, issuer |-> <<>>]
CfIssuer == <<"C", "l", "o", "u", "d", "f", "l", "a", "r", "e", " ", "I", "n", "c">>
LeIssuer == <<"L", "e", "t", "s", " ", "E", "n", "c", "r", "y", "p", "t">>
RootIssuer == <<"I", "S", "R", "G">>

\* What the TLS phase meets: TcpStream::connect fails, the handshake (write_all)
\* fails, or the handshake completes with the peer's certificates. (A completed
\* rustls handshake always has peer certificates.)
TlsOutcomes ==
    { [kind |-> "connect_err", certs |-> <<>>],
      [kind |-> "handshake_err", certs |-> <<>>],
      [kind |-> "certs", certs |-> <<Cert(CfIssuer)>>],
      [kind |-> "certs", certs |-> <<Cert(LeIssuer), Cert(RootIssuer)>>],
      [kind |-> "certs", certs |-> <<Cert(LeIssuer), BadCert>>] }

NoTls == [kind |-> "none", certs |-> <<>>]

\* rustls ServerName::try_from(&str): an ASCII DNS name without empty labels.
ServerNameOk(s) ==
    /\ \A i \in 1..Len(s) : CharCode(s[i]) < 128
    /\ LET labels == Split(s, <<".">>)
       IN \A i \in 1..Len(labels) : labels[i] # <<>>

\* The `for cert in certs` loop of get_certificate_info.
RECURSIVE CertLoop(_, _)
CertLoop(certs, i) ==
    IF i > Len(certs) THEN "Ok(false)"
    ELSE IF ~certs[i].parsable THEN "panic"
    ELSE IF Contains(to_lowercase(certs[i].issuer), Cloudflare) THEN "Ok(true)"
    ELSE CertLoop(certs, i + 1)

\* Domain::get_certificate_info: "Ok(true)" | "Ok(false)" | "Err" | "panic".
get_certificate_info(name, tls) ==
    LET c == clear_name_from_proto(name)
    IN IF ~c.ok \/ ~ServerNameOk(c.s) THEN "panic"
       ELSE IF tls.kind \in {"connect_err", "handshake_err"} THEN "Err"
       ELSE CertLoop(tls.certs, 1)

\* `if self.get_certificate_info().await.is_ok() { result |= CF_SSL }`
SslBit(info, res) == IF info \in {"Ok(true)", "Ok(false)"} THEN BitOr(res, CF_SSL) ELSE res

-----------------------------------------------------------------------------
(* checker.rs: Checker::check, Checker::cf_detected_domains, and the tasks *)

NumDomains == 2
MaxRuns == 2

Records == 1..NumDomains
\* The task that the k-th call of Checker::check spawns for record r is <<k, r>>.
Tasks == (1..MaxRuns) \X Records
NoTask == <<0, 0>>
\* The caller of the Checker, as a holder of a record's lock.
Caller == <<0, 1>>

\* The record whose Arc the task's closure captured (`let domain = domain.clone()`).
RecordOf(t) == t[2]

\* The names of the records: names Domain::build accepts.
RecordNames == {ExampleCom, <<"é", ".", "b">>}

\* get_certificate_info, tabulated over the names and TLS outcomes of the model.
CertificateInfo ==
    [nm \in RecordNames, tls \in TlsOutcomes |-> get_certificate_info(nm, tls)]

NoObs == [http |-> "none", resp |-> NoResponse, tls |-> NoTls]

CheckInit ==
    /\ domain_name \in [Records -> RecordNames]
    /\ check_result = [r \in Records |-> EMPTY]
    /\ is_unreachable = [r \in Records |-> FALSE]
    /\ lock = [r \in Records |-> NoTask]
    /\ waiters = [r \in Records |-> <<>>]
    /\ tpc = [t \in Tasks |-> "none"]
    /\ result = [t \in Tasks |-> EMPTY]
    /\ obs = [t \in Tasks |-> NoObs]
    /\ writer = [r \in Records |-> NoTask]
    /\ mpc = "idle"
    /\ run = 0
    /\ idx = 1
    /\ check_ret = "none"
    /\ detected = <<>>

\* A lock that is taken without regard to its holder.
Acquire_Unchecked(h, r) ==
    /\ lock' = [lock EXCEPT ![r] = h]
    /\ UNCHANGED waiters

\* tokio Mutex::lock by holder h: taken at once when the mutex is free, else h joins
\* the FIFO queue of waiters.
Acquire(h, r) ==
    IF lock[r] = NoTask
    THEN /\ lock' = [lock EXCEPT ![r] = h]
         /\ UNCHANGED waiters
    ELSE /\ waiters' = [waiters EXCEPT ![r] = Append(@, h)]
         /\ UNCHANGED lock

\* A guard whose drop frees the mutex without waking the first waiter.
Release_NoHandOff(r) ==
    /\ lock' = [lock EXCEPT ![r] = NoTask]
    /\ UNCHANGED waiters

\* The MutexGuard is dropped: the mutex passes to the first waiter, if any.
Release(r) ==
    IF waiters[r] = <<>>
    THEN /\ lock' = [lock EXCEPT ![r] = NoTask]
         /\ UNCHANGED waiters
    ELSE /\ lock' = [lock EXCEPT ![r] = Head(waiters[r])]
         /\ waiters' = [waiters EXCEPT ![r] = Tail(@)]

\* Task t holds its record's mutex and has not yet made its HTTP request.
AtRequest(t) ==
    \/ tpc[t] = "locked"
    \/ tpc[t] = "waiting" /\ lock[RecordOf(t)] = t

\* The spawned task is polled for the first time: domain.lock().await
TaskLock(t) ==
    /\ tpc[t] = "spawned"
    /\ Acquire(t, RecordOf(t))
    /\ tpc' = [tpc EXCEPT ![t] =
                  IF lock[RecordOf(t)] = NoTask THEN "locked" ELSE "waiting"]
    /\ UNCHANGED <<domain_name, check_result, is_unreachable, result, obs, writer, mpc,
                   run, idx, check_ret, detected>>

\* A failed GET that marks the record and then goes on to the TLS phase.
TaskHttpFail_NoShortCircuit(t) ==
    /\ AtRequest(t)
    /\ is_unreachable' = [is_unreachable EXCEPT ![RecordOf(t)] = TRUE]
    /\ result' = [result EXCEPT ![t] = EMPTY]
    /\ obs' = [obs EXCEPT ![t] = [http |-> "fail", resp |-> NoResponse, tls |-> NoTls]]
    /\ tpc' = [tpc EXCEPT ![t] = "tls"]
    /\ UNCHANGED <<domain_name, check_result, lock, waiters, writer, mpc, run, idx,
                   check_ret, detected>>

\* verify_domain: `let mut result = EMPTY`, reqwest::get fails: is_unreachable = true.
TaskHttpFail(t) ==
    /\ AtRequest(t)
    /\ is_unreachable' = [is_unreachable EXCEPT ![RecordOf(t)] = TRUE]
    /\ result' = [result EXCEPT ![t] = EMPTY]
    /\ obs' = [obs EXCEPT ![t] = [http |-> "fail", resp |-> NoResponse, tls |-> NoTls]]
    /\ tpc' = [tpc EXCEPT ![t] = "write"]
    /\ UNCHANGED <<domain_name, check_result, lock, waiters, writer, mpc, run, idx,
                   check_ret, detected>>

\* verify_domain: reqwest::get returns resp; the address and the three header checks.
\* An unwrap that panics unwinds the task: its guard is dropped, its JoinHandle
\* yields a JoinError.
TaskHttpOk(t) ==
    /\ AtRequest(t)
    /\ \E resp \in Responses :
         LET v == ResponseVerdict[resp]
         IN IF v.panic
            THEN /\ tpc' = [tpc EXCEPT ![t] = "panicked"]
                 /\ Release(RecordOf(t))
                 /\ UNCHANGED <<result, obs>>
            ELSE /\ tpc' = [tpc EXCEPT ![t] = "tls"]
                 /\ result' = [result EXCEPT ![t] = v.result]
                 /\ obs' = [obs EXCEPT ![t] = [http |-> "ok", resp |-> resp, tls |-> NoTls]]
                 /\ UNCHANGED <<lock, waiters>>
    /\ UNCHANGED <<domain_name, check_result, is_unreachable, writer, mpc, run, idx,
                   check_ret, detected>>

\* verify_domain: get_certificate_info and the TLS bit.
TaskTls(t) ==
    /\ tpc[t] = "tls"
    /\ \E tls \in TlsOutcomes :
         LET info == CertificateInfo[domain_name[RecordOf(t)], tls]
         IN IF info = "panic"
            THEN /\ tpc' = [tpc EXCEPT ![t] = "panicked"]
                 /\ Release(RecordOf(t))
                 /\ result' = [result EXCEPT ![t] = EMPTY]
                 /\ obs' = [obs EXCEPT ![t] = NoObs]
            ELSE /\ tpc' = [tpc EXCEPT ![t] = "write"]
                 /\ result' = [result EXCEPT ![t] = SslBit(info, @)]
                 /\ obs' = [obs EXCEPT ![t].tls = tls]
                 /\ UNCHANGED <<lock, waiters>>
    /\ UNCHANGED <<domain_name, check_result, is_unreachable, writer, mpc, run, idx,
                   check_ret, detected>>

\* verify_domain: `self.check_result = result; Ok(())`
TaskWrite(t) ==
    /\ tpc[t] = "write"
    /\ check_result' = [check_result EXCEPT ![RecordOf(t)] = result[t]]
    /\ writer' = [writer EXCEPT ![RecordOf(t)] = t]
    /\ tpc' = [tpc EXCEPT ![t] = "written"]
    /\ UNCHANGED <<domain_name, is_unreachable, lock, waiters, result, obs, mpc, run,
                   idx, check_ret, detected>>

\* The statement of the task ends: the guard is dropped and the task finishes.
TaskUnlock(t) ==
    /\ tpc[t] = "written"
    /\ Release(RecordOf(t))
    /\ tpc' = [tpc EXCEPT ![t] = "done"]
    /\ result' = [result EXCEPT ![t] = EMPTY]
    /\ obs' = [obs EXCEPT ![t] = NoObs]
    /\ UNCHANGED <<domain_name, check_result, is_unreachable, writer, mpc, run, idx,
                   check_ret, detected>>

\* Checker::check is called.
CheckStart ==
    /\ mpc = "idle"
    /\ run < MaxRuns
    /\ run' = run + 1
    /\ mpc' = "spawn"
    /\ idx' = 1
    /\ UNCHANGED <<domain_name, check_result, is_unreachable, lock, waiters, tpc,
                   result, obs, writer, check_ret, detected>>

\* One iteration of `for domain in self.domains.iter_mut()`: tokio::spawn.
CheckSpawn ==
    /\ mpc = "spawn"
    /\ tpc' = [tpc EXCEPT ![<<run, idx>>] = "spawned"]
    /\ IF idx = NumDomains
       THEN mpc' = "join" /\ idx' = 1
       ELSE mpc' = "spawn" /\ idx' = idx + 1
    /\ UNCHANGED <<domain_name, check_result, is_unreachable, lock, waiters, result,
                   obs, writer, run, check_ret, detected>>

\* One iteration of `for handle in handles`: handle.await is Ok.
CheckJoinOk ==
    /\ mpc = "join"
    /\ tpc[<<run, idx>>] = "done"
    /\ IF idx = NumDomains
       THEN mpc' = "idle" /\ idx' = 1 /\ check_ret' = "Ok"
       ELSE mpc' = "join" /\ idx' = idx + 1 /\ UNCHANGED check_ret
    /\ UNCHANGED <<domain_name, check_result, is_unreachable, lock, waiters, tpc,
                   result, obs, writer, run, detected>>

\* handle.await is a JoinError: `?` returns it; the other handles are dropped,
\* which detaches their tasks.
CheckJoinErr ==
    /\ mpc = "join"
    /\ tpc[<<run, idx>>] = "panicked"
    /\ mpc' = "idle"
    /\ idx' = 1
    /\ check_ret' = "Err"
    /\ UNCHANGED <<domain_name, check_result, is_unreachable, lock, waiters, tpc,
                   result, obs, writer, run, detected>>

\* Checker::cf_detected_domains is called, after a check has returned.
CfStart ==
    /\ mpc = "idle"
    /\ run > 0
    /\ mpc' = "cf"
    /\ idx' = 1
    /\ detected' = <<>>
    /\ UNCHANGED <<domain_name, check_result, is_unreachable, lock, waiters, tpc,
                   result, obs, writer, run, check_ret>>

\* cf_detected_domains: domain.lock().await on the record of the iteration.
CfLock ==
    /\ mpc = "cf"
    /\ Acquire(Caller, idx)
    /\ mpc' = IF lock[idx] = NoTask THEN "cf_locked" ELSE "cf_waiting"
    /\ UNCHANGED <<domain_name, check_result, is_unreachable, tpc, result, obs, writer,
                   run, idx, check_ret, detected>>

\* cf_detected_domains: with the lock, `check_result != 0` decides the push; the guard
\* is a temporary of the condition and is dropped.
CfRead ==
    /\ mpc \in {"cf_locked", "cf_waiting"}
    /\ lock[idx] = Caller
    /\ detected' = IF check_result[idx] # 0 THEN Append(detected, idx) ELSE detected
    /\ Release(idx)
    /\ IF idx = NumDomains
       THEN mpc' = "cf_return" /\ idx' = 1
       ELSE mpc' = "cf" /\ idx' = idx + 1
    /\ UNCHANGED <<domain_name, check_result, is_unreachable, tpc, result, obs, writer,
                   run, check_ret>>

\* cf_detected_domains returns v.
CfReturn ==
    /\ mpc = "cf_return"
    /\ mpc' = "idle"
    /\ UNCHANGED <<domain_name, check_result, is_unreachable, lock, waiters, tpc,
                   result, obs, writer, run, idx, check_ret, detected>>

CheckIdle ==
    /\ domain_name = [r \in Records |-> ExampleCom]
    /\ check_result = [r \in Records |-> EMPTY]
    /\ is_unreachable = [r \in Records |-> FALSE]
    /\ lock = [r \in Records |-> NoTask]
    /\ waiters = [r \in Records |-> <<>>]
    /\ tpc = [t \in Tasks |-> "none"]
    /\ result = [t \in Tasks |-> EMPTY]
    /\ obs = [t \in Tasks |-> NoObs]
    /\ writer = [r \in Records |-> NoTask]
    /\ mpc = "idle"
    /\ run = 0
    /\ idx = 1
    /\ check_ret = "none"
    /\ detected = <<>>

-----------------------------------------------------------------------------
(* Specifications *)

\* The verification: Checker::check and cf_detected_domains on a built Checker.
Init == CidrIdle /\ IpsIdle /\ BuildIdle /\ CheckInit

Next ==
    \/ \E t \in Tasks : TaskLock(t) /\ UNCHANGED <<cidrVars, ipsVars, buildVars>>
    \/ \E t \in Tasks : TaskHttpFail(t) /\ UNCHANGED <<cidrVars, ipsVars, buildVars>>
    \/ \E t \in Tasks : TaskHttpOk(t) /\ UNCHANGED <<cidrVars, ipsVars, buildVars>>
    \/ \E t \in Tasks : TaskTls(t) /\ UNCHANGED <<cidrVars, ipsVars, buildVars>>
    \/ \E t \in Tasks : TaskWrite(t) /\ UNCHANGED <<cidrVars, ipsVars, buildVars>>
    \/ \E t \in Tasks : TaskUnlock(t) /\ UNCHANGED <<cidrVars, ipsVars, buildVars>>
    \/ CheckStart /\ UNCHANGED <<cidrVars, ipsVars, buildVars>>
    \/ CheckSpawn /\ UNCHANGED <<cidrVars, ipsVars, buildVars>>
    \/ CheckJoinOk /\ UNCHANGED <<cidrVars, ipsVars, buildVars>>
    \/ CheckJoinErr /\ UNCHANGED <<cidrVars, ipsVars, buildVars>>
    \/ CfStart /\ UNCHANGED <<cidrVars, ipsVars, buildVars>>
    \/ CfLock /\ UNCHANGED <<cidrVars, ipsVars, buildVars>>
    \/ CfRead /\ UNCHANGED <<cidrVars, ipsVars, buildVars>>
    \/ CfReturn /\ UNCHANGED <<cidrVars, ipsVars, buildVars>>

Spec == Init /\ [][Next]_vars

\* The CIDR matcher on its own.
InitCidr == CidrInit /\ IpsIdle /\ BuildIdle /\ CheckIdle

NextCidr == CheckIpInCidr /\ UNCHANGED <<ipsVars, buildVars, checkVars>>

SpecCidr == InitCidr /\ [][NextCidr]_vars

\* Checker::build on its own.
InitBuild == CidrIdle /\ IpsIdle /\ BuildInit /\ CheckIdle

NextBuild ==
    \/ BuildLine /\ UNCHANGED <<cidrVars, ipsVars, checkVars>>
    \/ BuildLoadOk /\ UNCHANGED <<cidrVars, ipsVars, checkVars>>
    \/ BuildLoadErr /\ UNCHANGED <<cidrVars, ipsVars, checkVars>>

SpecBuild == InitBuild /\ [][NextBuild]_vars

\* CFIPs::load_ips and CFIPs::check_ip_v4 on their own.
InitIps == CidrIdle /\ IpsInit /\ BuildIdle /\ CheckIdle

NextIps ==
    \/ LoadIps /\ UNCHANGED <<cidrVars, buildVars, checkVars>>
    \/ CheckIpV4 /\ UNCHANGED <<cidrVars, buildVars, checkVars>>

SpecIps == InitIps /\ [][NextIps]_vars

\* The steps of the spawned task t.
TaskNext(t) ==
    /\ \/ TaskLock(t)
       \/ TaskHttpFail(t)
       \/ TaskHttpOk(t)
       \/ TaskTls(t)
       \/ TaskWrite(t)
       \/ TaskUnlock(t)
    /\ UNCHANGED <<cidrVars, ipsVars, buildVars>>

\* The steps of the caller inside Checker::check and cf_detected_domains.
CallerNext ==
    /\ \/ CheckSpawn
       \/ CheckJoinOk
       \/ CheckJoinErr
       \/ CfLock
       \/ CfRead
       \/ CfReturn
    /\ UNCHANGED <<cidrVars, ipsVars, buildVars>>

\* The verification under the runtime's scheduling: a spawned task that can take a
\* step is polled, every network operation returns, and the caller's future is polled
\* while it is inside check or cf_detected_domains. When the caller calls check or
\* cf_detected_domains is left to the caller.
Fairness ==
    /\ \A t \in Tasks : WF_vars(TaskNext(t))
    /\ WF_vars(CallerNext)

SpecLive == Init /\ [][Next]_vars /\ Fairness

-----------------------------------------------------------------------------
(* Claims *)

\* The 32-bit numeric encoding of dotted decimal text: 8 bits per octet value.
NumericBits(text) ==
    LET parts == Split(text, <<".">>)
    IN Concat([i \in 1..Len(parts) |-> Byte8(DecValue(parts[i]))])

RangeNetwork == Split(cidr_range, <<"/">>)[1]
RangePrefix == DecValue(Split(cidr_range, <<"/">>)[2])

\* C1: for an IPv4 address and a well-formed range a.b.c.d/p, check_ip_in_cidr returns
\* true exactly when the first p bits of the 32-bit numeric encodings of the address
\* and of the range's network address are equal.
C1_TrueIffNumericPrefixMatches ==
    cidr_res # "none" =>
        cidr_res = IF SubSeq(NumericBits(cidr_ip), 1, RangePrefix)
                      = SubSeq(NumericBits(RangeNetwork), 1, RangePrefix)
                   THEN "true" ELSE "false"

\* The handshake completed and some peer certificate's issuer contains "cloudflare",
\* case-insensitively.
ProviderIssued(tls) ==
    /\ tls.kind = "certs"
    /\ \E i \in 1..Len(tls.certs) :
         tls.certs[i].parsable /\ Contains(to_lowercase(tls.certs[i].issuer), Cloudflare)

\* C2: when verify_domain has completed on a reachable domain, the TLS bit of
\* check_result is set exactly when the handshake succeeded and a peer certificate's
\* issuer contains "cloudflare".
C2_TlsBitIffProviderIssuer ==
    \A t \in Tasks :
        tpc[t] = "written" /\ obs[t].http = "ok" =>
            (HasBit(check_result[t[2]], CF_SSL) <=> ProviderIssued(obs[t].tls))

\* A verification of record r is under way: a task holds r's lock and has not yet
\* returned from verify_domain.
Verifying(r) ==
    \E t \in Tasks : t[2] = r /\ (AtRequest(t) \/ tpc[t] \in {"tls", "write"})

\* C3: whenever a verification of a record has completed and none is under way, over
\* any number of check runs, is_unreachable implies check_result = 0. (Stated for the
\* runs in which no task has failed, where it already does not hold.)
C3_UnreachableHasEmptyMask ==
    (\A t \in Tasks : tpc[t] # "panicked") =>
        \A r \in Records :
            writer[r] # NoTask /\ ~Verifying(r) =>
                (is_unreachable[r] => check_result[r] = EMPTY)

\* C4: when the HTTP GET of a verification failed, verify_domain returns Ok having set
\* is_unreachable, written the empty mask and made no other check; the record's
\* status is "Unreachable".
C4_UnreachableShortCircuit ==
    \A t \in Tasks :
        obs[t].http = "fail" =>
            /\ tpc[t] \in {"write", "written"}
            /\ is_unreachable[t[2]]
            /\ result[t] = EMPTY
            /\ obs[t].resp = NoResponse
            /\ obs[t].tls = NoTls
            /\ tpc[t] = "written" =>
                 /\ check_result[t[2]] = EMPTY
                 /\ get_status([name |-> domain_name[t[2]],
                                check_result |-> check_result[t[2]],
                                is_unreachable |-> is_unreachable[t[2]]]) = "Unreachable"

\* C4 witness: a verification whose GET failed has returned, in a second run.
C4_Witness ==
    \E t \in Tasks : t[1] = 2 /\ tpc[t] = "written" /\ obs[t].http = "fail"

\* C5: once the HTTP GET has succeeded no check aborts the verification: no task
\* fails and Checker::check does not return Err.
C5_NoCheckAborts ==
    /\ \A t \in Tasks : tpc[t] # "panicked"
    /\ check_ret # "Err"

\* C6: whenever Checker::check is not in progress, no task it spawned is still
\* running or still holds a record's lock.
C6_CheckReturnsAfterAllTasks ==
    mpc \notin {"spawn", "join"} =>
        /\ \A t \in Tasks : tpc[t] \in {"none", "done", "panicked"}
        /\ \A r \in Records : lock[r] \notin Tasks

\* The mask one verification computes from what it observed of the domain.
MaskOf(o, nm) ==
    IF o.http = "fail" THEN EMPTY
    ELSE SslBit(get_certificate_info(nm, o.tls), VerifyResponse(o.resp).result)

\* C7: a record is written only by a task spawned for it, holding its mutex; no two
\* tasks are inside verify_domain on one record at once; and the mask a task has
\* written is the mask of its own verification of its own domain.
C7_ExclusiveWrites ==
    /\ \A r \in Records : writer[r] # NoTask => writer[r][2] = r
    /\ \A t \in Tasks : tpc[t] \in {"locked", "tls", "write", "written"} => lock[t[2]] = t
    /\ \A r \in Records :
         Cardinality({t \in Tasks : t[2] = r
                        /\ tpc[t] \in {"locked", "tls", "write", "written"}}) <= 1
    /\ \A t \in Tasks :
         tpc[t] = "written" =>
            /\ writer[t[2]] = t
            /\ check_result[t[2]] = result[t]
            /\ check_result[t[2]] = MaskOf(obs[t], domain_name[t[2]])

\* C7 witness: the two tasks of one run have both written, different masks, and
\* both still hold their locks.
C7_Witness ==
    /\ tpc[<<1, 1>>] = "written"
    /\ tpc[<<1, 2>>] = "written"
    /\ check_result[1] # check_result[2]
    /\ check_result[1] # EMPTY

\* The records with a nonzero mask, in the order of Checker.domains.
NonzeroRecords == SelectSeq([r \in Records |-> r], LAMBDA r : check_result[r] # 0)

\* C8: called after Checker::check has returned, cf_detected_domains returns exactly
\* the records whose check_result is nonzero, once each and in order.
C8_DetectedAreTheNonzeroRecords ==
    mpc = "cf_return" => detected = NonzeroRecords

\* The records Checker::build is to hold: one per line Domain::is_valid accepts, in
\* order, with the empty mask.
RECURSIVE RecordsOfLines(_)
RecordsOfLines(lines) ==
    IF lines = <<>> THEN <<>>
    ELSE LET c == clear_name_from_proto(Head(lines))
         IN (IF is_valid(Head(lines)) = "true"
             THEN <<[name |-> c.s, check_result |-> EMPTY, is_unreachable |-> FALSE]>>
             ELSE <<>>) \o RecordsOfLines(Tail(lines))

\* C9: Checker::build returns for every input, and holds one record per valid line;
\* an invalid line or a line with another scheme only produces no record.
C9_InvalidLinesAreSkipped ==
    /\ bpc # "panic"
    /\ bpc \in {"load", "Ok", "Err"} => built = RecordsOfLines(Split(target, <<"\n">>))

StartsWith(s, pre) == MatchesAt(s, pre, 1)

\* The normalized name: trimmed, a leading http:// or https:// removed.
NormalizedName(s) ==
    LET t == Trim(s)
    IN IF StartsWith(t, Http \o SchemeSep) THEN SubSeq(t, 8, Len(t))
       ELSE IF StartsWith(t, Https \o SchemeSep) THEN SubSeq(t, 9, Len(t))
       ELSE t

\* The validity of a normalized name, lengths counted in characters.
ValidName(n) ==
    /\ n # <<>>
    /\ Len(n) <= 253
    /\ LET labels == Split(n, <<".">>)
       IN /\ Len(labels) >= 2
          /\ \A i \in 1..Len(labels) :
               /\ Len(labels[i]) <= 63
               /\ \A j \in 1..Len(labels[i]) :
                    IsAlphanumeric(labels[i][j]) \/ labels[i][j] = "-"
               /\ labels[i] # <<>> => labels[i][1] # "-" /\ labels[i][Len(labels[i])] # "-"

\* C10: Domain::build returns Ok exactly when the normalized name is valid, and Err
\* in every other case.
C10_BuildOkIffValidName ==
    last_build.res # "none" =>
        last_build.res = IF ValidName(NormalizedName(last_build.input)) THEN "Ok" ELSE "Err"

\* The input with exactly a leading http:// or https:// removed; <<>> when the input
\* has neither prefix.
Unprefixed(s) ==
    IF StartsWith(s, Http \o SchemeSep) THEN SubSeq(s, 8, Len(s))
    ELSE IF StartsWith(s, Https \o SchemeSep) THEN SubSeq(s, 9, Len(s))
    ELSE <<>>

HasSchemePrefix(s) == StartsWith(s, Http \o SchemeSep) \/ StartsWith(s, Https \o SchemeSep)

\* C11: whenever Domain::build of 'http://' + s or 'https://' + s succeeds, the stored
\* name of the record equals s.
C11_StoredNameIsUnprefixedInput ==
    (last_build.res = "Ok" /\ HasSchemePrefix(last_build.input)) =>
        last_build.name = Unprefixed(last_build.input)

\* A decimal number of at most max.
IsNumberUpTo(s, max) ==
    /\ s # <<>>
    /\ \A i \in 1..Len(s) : IsDigit(s[i])
    /\ DecValue(s) <= max

\* A well-formed range line: four octets, a '/', a prefix length of 0..32.
WellFormedRange(line) ==
    LET parts == Split(line, <<"/">>)
    IN /\ Len(parts) = 2
       /\ IsNumberUpTo(parts[2], 32)
       /\ LET octets == Split(parts[1], <<".">>)
          IN /\ Len(octets) = 4
             /\ \A i \in 1..4 : IsNumberUpTo(octets[i], 255)

\* C12: CFIPs::check_ip_v4 returns a boolean for every loaded list and every address
\* string, and only a well-formed range line can make it return true.
C12_CheckIpV4NeverFails ==
    ipc = "done" =>
        /\ v4_res \in {"true", "false"}
        /\ v4_res = "true" =>
             \E i \in 1..Len(cf_ipsv4) :
                 /\ WellFormedRange(cf_ipsv4[i])
                 /\ check_ip_in_cidr(v4_ip, cf_ipsv4[i]) = "true"

\* Task t is between its lock().await returning and the drop of its guard.
InVerification(t) == tpc[t] \in {"locked", "tls", "write", "written"}

\* Task t has not been polled yet, or has ended (normally or by a panic).
Outside(t) == tpc[t] \in {"none", "spawned", "done", "panicked"}

InQueue(h, r) == \E i \in 1..Len(waiters[r]) : waiters[r][i] = h

\* Each task holds or waits for its own record's lock only, holds it for the whole of
\* its verification, and neither holds nor waits for it once it has ended.
LockDiscipline ==
    /\ \A r \in Records : \A t \in Tasks :
          (lock[r] = t \/ InQueue(t, r)) => RecordOf(t) = r
    /\ \A t \in Tasks :
          /\ InVerification(t) => lock[RecordOf(t)] = t
          /\ Outside(t) => lock[RecordOf(t)] # t /\ ~InQueue(t, RecordOf(t))
          /\ tpc[t] = "waiting" =>
                (lock[RecordOf(t)] = t) # InQueue(t, RecordOf(t))
    /\ \A r \in Records :
          /\ lock[r] = NoTask => waiters[r] = <<>>
          /\ \A i, j \in 1..Len(waiters[r]) : i # j => waiters[r][i] # waiters[r][j]

\* Some task or the caller is in the middle of an operation.
Busy ==
    \/ mpc # "idle"
    \/ \E t \in Tasks : tpc[t] \notin {"none", "done", "panicked"}

\* While an operation is in progress, a task or the caller can take a step.
NoDeadlock == Busy => ENABLED (CallerNext \/ \E t \in Tasks : TaskNext(t))

InCheck == mpc \in {"spawn", "join"}
InDetected == mpc \in {"cf", "cf_locked", "cf_waiting"}

\* C13: each task takes only its own record's lock, holds it for its whole
\* verification and releases it once on every exit path; no deadlock is reachable;
\* Checker::check eventually returns, and every later cf_detected_domains call
\* eventually acquires each record's lock and returns.
C13_LocksReleasedAndCallsReturn ==
    /\ [](LockDiscipline /\ NoDeadlock)
    /\ InCheck ~> (mpc = "idle" /\ check_ret \in {"Ok", "Err"})
    /\ \A r \in Records : (InDetected /\ idx = r) ~> (lock[r] = Caller)
    /\ InDetected ~> (mpc = "cf_return")

\* cf_detected_domains returns after a check in which one task failed and another
\* took the unreachable short-circuit, having waited for a record's lock; every task
\* has ended and every lock is free.
C13_Witness ==
    /\ mpc = "cf_return"
    /\ \E t \in Tasks : tpc[t] = "panicked"
    /\ \E t \in Tasks : tpc[t] = "done" /\ is_unreachable[RecordOf(t)]
    /\ \A t \in Tasks : tpc[t] \in {"done", "panicked"}
    /\ \A r \in Records : lock[r] = NoTask /\ waiters[r] = <<>>

=============================================================================
